---- MODULE Spec2Model ----
(***************************************************************************)
(* Model of upload.py: the DEQAR -> Credential Registry (CTDL) uploader.   *)
(*                                                                         *)
(* Python values are modelled as follows: str as TLA+ strings (joined with *)
(* \o), None as the string "None" (what str(None) yields), JSON true and   *)
(* false of the is_registered field as "True" / "False", dicts as records, *)
(* lists as sequences.  uuid.uuid5 cannot be computed here; it is modelled *)
(* as an injective function of its two arguments.                          *)
(***************************************************************************)
EXTENDS Integers, Sequences, FiniteSets, TLC

VARIABLES
    \* ---- the __main__ run -------------------------------------------------
    dry_run,      \* args.dry_run
    phase,        \* "agencies" | "reports" | "done" | "aborted"
    id_iterator,  \* ids the iterator of the running loop has not fetched yet
    n_fetch,      \* number of api.get calls made so far
    step,         \* the last loop iteration: kind, id, fetched data, document
                  \* handed to the destination, outcome
    calls,        \* destination calls made so far, in order
    \* ---- one DeqarIterator instance ---------------------------------------
    it,
    \* ---- one translator instance ------------------------------------------
    t_kind,       \* "agency" | "report" | "idle"
    t_data,       \* the record the translator was constructed from
    t_stage,      \* "fetched" | "rejected" | "constructed" | "named" | "failed"
    t_props,      \* values of the name_primary / acronym_primary properties
    t_label,      \* the header printed by __main__ (acronym_primary or name)
    t_docs,       \* results of the serialize() calls made so far
    t_error       \* the exception raised, or "none"

main_vars == <<dry_run, phase, id_iterator, n_fetch, step, calls>>
tr_vars   == <<t_kind, t_data, t_stage, t_props, t_label, t_docs, t_error>>
vars      == <<dry_run, phase, id_iterator, n_fetch, step, calls, it,
               t_kind, t_data, t_stage, t_props, t_label, t_docs, t_error>>

(***************************************************************************)
(* Bounds of the model.                                                    *)
(***************************************************************************)
MaxVersions == 2   \* name versions of one agency record, over all its names
MaxProg     == 2   \* programmes of one report record
MaxInst     == 2   \* institutions of one report record
MaxRun      == 2   \* ids of each ID_SEQUENCE a modelled run goes through
MaxSeq      == 2   \* length of a sequence handed to an iterator

(***************************************************************************)
(* Python values.                                                          *)
(***************************************************************************)
None   == "None"
JTrue  == "True"
JFalse == "False"

\* bool(v) for the values that occur: None, False and "" are falsy.
Truthy(v) == v \notin {None, JFalse, ""}

\* '%s' % n and f'{n}' for an int
StrInt(n) == ToString(n)

Last(s) == s[Len(s)]

\* " / ".join(list)
RECURSIVE Join(_, _)
Join(sep, s) ==
    IF s = <<>> THEN ""
    ELSE IF Len(s) = 1 THEN s[1]
    ELSE s[1] \o sep \o Join(sep, Tail(s))

(***************************************************************************)
(* make_ctid                                                               *)
(***************************************************************************)
NAMESPACE_URL == "6ba7b811-9dad-11d1-80b4-00c04fd430c8"

\* uuid.uuid5(namespace, name): a function of (namespace, name) alone,
\* injective (collisions of the SHA-1 based hash are not modelled).
uuid5(namespace, name) == "uuid5<" \o namespace \o "|" \o name \o ">"

make_ctid(uri) == "ce-" \o uuid5(NAMESPACE_URL, uri)

\* values uuid.uuid4() can return
UUID4 == {"uuid4-a", "uuid4-b"}

(***************************************************************************)
(* Source records (inputs).                                                *)
(***************************************************************************)
SampleIds == {1, 2}
ValidDate == "2030-01-01"

VersionFlags == [name_is_primary : BOOLEAN, acronym_is_primary : BOOLEAN]

\* Shapes of data['names']: per name record its name_valid_to and the
\* primary flags of its versions; every name record has at least one
\* version and the record has at most t versions in all.
RECURSIVE NameShapes(_)
NameShapes(t) ==
    {<<>>} \cup
    UNION { { <<[vt |-> v, fl |-> f]>> \o rest :
                v \in {None, ValidDate},
                f \in [1..k -> VersionFlags],
                rest \in NameShapes(t - k) } : k \in 1..t }

\* The names list of a shape; names and acronyms are distinct per position.
MakeNames(shape) ==
    [i \in 1..Len(shape) |->
        [name_valid_to |-> shape[i].vt,
         name_versions |->
            [j \in 1..Len(shape[i].fl) |->
                [name               |-> "Name" \o StrInt(i) \o "." \o StrInt(j),
                 name_is_primary    |-> shape[i].fl[j].name_is_primary,
                 acronym            |-> "ACR" \o StrInt(i) \o "." \o StrInt(j),
                 acronym_is_primary |-> shape[i].fl[j].acronym_is_primary]]]]

AgencyRecordsFor(id) ==
    { [deqar_id              |-> id,
       is_registered         |-> reg,
       names                 |-> MakeNames(sh),
       description_note      |-> "note",
       registration_start    |-> "2015-01-01",
       registration_valid_to |-> None] :
      reg \in {JTrue, JFalse, None}, sh \in NameShapes(MaxVersions) }

AgencyRecords == UNION { AgencyRecordsFor(id) : id \in SampleIds }

(***************************************************************************)
(* AgencyAction                                                            *)
(***************************************************************************)
EQAR_CTID              == "ce-be0685bc-fa10-4529-9a1a-a667881c2007"
AGENCY_INSTRUMENT_CTID == "ce-1f75547d-e352-42fc-873d-4044bf23f806"
AGENCY_URI_TEMPLATE(id)  == "https://data.test.deqar.eu/agency/" \o StrInt(id) \o "/registration"
PAGE_TEMPLATE(id) == "https://data.deqar.eu/agency/" \o StrInt(id)

\* AgencyInit testing `is False` instead of falsiness
AgencyInit_Mut(data) ==
    IF data.is_registered = JFalse THEN "NotYetImplemented" ELSE "ok"

\* AgencyAction.__init__: "ok", or the exception it raises
AgencyInit(data) ==
    IF ~Truthy(data.is_registered) THEN "NotYetImplemented" ELSE "ok"

\* The inner loop of name_primary / acronym_primary over name['name_versions']:
\* <<TRUE, value>> of the first version whose flag is set, else <<FALSE, None>>.
RECURSIVE ScanVersions(_, _, _)
ScanVersions(versions, flag, field) ==
    IF versions = <<>> THEN <<FALSE, None>>
    ELSE IF Head(versions)[flag] THEN <<TRUE, Head(versions)[field]>>
    ELSE ScanVersions(Tail(versions), flag, field)

\* ScanNames without the test of name_valid_to
RECURSIVE ScanNames_Mut(_, _, _)
ScanNames_Mut(names, flag, field) ==
    IF names = <<>> THEN None
    ELSE LET hit == ScanVersions(Head(names).name_versions, flag, field)
         IN  IF hit[1] THEN hit[2] ELSE ScanNames_Mut(Tail(names), flag, field)

\* The outer loop over data['names']; falling off the end returns None.
RECURSIVE ScanNames(_, _, _)
ScanNames(names, flag, field) ==
    IF names = <<>> THEN None
    ELSE IF Head(names).name_valid_to = None
         THEN LET hit == ScanVersions(Head(names).name_versions, flag, field)
              IN  IF hit[1] THEN hit[2] ELSE ScanNames(Tail(names), flag, field)
         ELSE ScanNames(Tail(names), flag, field)

name_primary(data)    == ScanNames(data.names, "name_is_primary", "name")
acronym_primary(data) == ScanNames(data.names, "acronym_is_primary", "acronym")

\* AgencyAction.serialize, u being the value uuid.uuid4() returns
AgencySerialize(data, u) ==
    LET ref_id == "_:" \o u IN
    [CredentialingAction |->
        [Type             |-> "ApproveAction",
         Name             |-> acronym_primary(data) \o " Registration",
         Description      |-> name_primary(data) \o " (" \o acronym_primary(data)
                              \o ") has demonstrated substantial compliance with the ESG and is registered on EQAR",
         CTID             |-> make_ctid(AGENCY_URI_TEMPLATE(data.deqar_id)),
         Instrument       |-> <<AGENCY_INSTRUMENT_CTID>>,
         ActingAgent      |-> <<[CTID |-> EQAR_CTID]>>,
         EvidenceOfAction |-> PAGE_TEMPLATE(data.deqar_id),
         Object           |-> ref_id,
         StartDate        |-> data.registration_start,
         EndDate          |-> data.registration_valid_to],
     ReferenceObjects |->
        <<[Id             |-> ref_id,
           Type           |-> "ceterms:QACredentialOrganization",
           Name           |-> name_primary(data) \o " (" \o acronym_primary(data) \o ")",
           Description    |-> data.description_note,
           SubjectWebpage |-> PAGE_TEMPLATE(data.deqar_id)]>>,
     PublishForOrganizationIdentifier |-> EQAR_CTID,
     DefaultLanguage |-> "en-US"]

(***************************************************************************)
(* Report records (inputs).                                                *)
(***************************************************************************)
Institution(n) ==
    [id                |-> 100 + n,
     name_primary      |-> "University " \o StrInt(n),
     deqar_id          |-> "DEQARINST" \o StrInt(n),
     is_other_provider |-> (n = 2)]

Programme(j) ==
    [name_primary   |-> "Programme " \o StrInt(j),
     programme_type |-> "Bachelor",
     qf_ehea_level  |-> "first cycle"]

InstitutionLists ==
    UNION { [1..n -> {Institution(1), Institution(2)}] : n \in 0..MaxInst }

ProgrammeLists == { [j \in 1..n |-> Programme(j)] : n \in 0..MaxProg }

Decisions     == {"positive", "negative", "not applicable"}
ActivityTypes == {"joint programme", "institutional", "institutional/programme",
                  "programme", "other"}

\* report records without a 'programmes' key
ReportRecordsBare(id) ==
    { [id                       |-> id,
       name                     |-> "Report " \o StrInt(id),
       decision                 |-> d,
       status                   |-> "current",
       agency_esg_activity      |-> "Activity",
       agency_esg_activity_type |-> a,
       agency_id                |-> 7,
       agency_name              |-> "Agency",
       agency_acronym           |-> "AG",
       valid_from               |-> "2020-01-01",
       valid_to                 |-> vt,
       institutions             |-> il] :
      d \in Decisions, a \in ActivityTypes,
      vt \in {None, ValidDate}, il \in InstitutionLists }

ReportRecordsFor(id) ==
    ReportRecordsBare(id) \cup
    { r @@ [programmes |-> pl] : r \in ReportRecordsBare(id), pl \in ProgrammeLists }

ReportRecords == UNION { ReportRecordsFor(id) : id \in SampleIds }

(***************************************************************************)
(* ReportAction                                                            *)
(***************************************************************************)
ACTIVITY_TYPE_CTID ==
    [t \in {"joint programme", "institutional", "institutional/programme", "programme"} |->
        CASE t = "joint programme"         -> "ce-7340b2df-d2b1-5bd6-bef8-22506322a11b"
          [] t = "institutional"           -> "ce-92560c7e-3106-569d-9c91-304cc9f17684"
          [] t = "institutional/programme" -> "ce-bc9b47c0-1c29-589f-b9aa-89924f0e44be"
          [] t = "programme"               -> "ce-0ab77ad3-cfdf-5b0c-8978-5195c3170bcc"]
REPORT_URI_TEMPLATE(id)    == "https://data.test.deqar.eu/report/" \o StrInt(id)
AGENCY_PAGE_TEMPLATE(id) == "https://data.deqar.eu/report/" \o StrInt(id)
REPORT_PAGE_TEMPLATE(id)   == "https://data.deqar.eu/report/" \o StrInt(id)
PROVIDER_PAGE_TEMPLATE(id) == "https://data.deqar.eu/institution/" \o StrInt(id)

\* ReportInit without the check of the number of institutions
ReportInit_Mut(data) ==
    IF data.decision = "negative" THEN "NotYetImplemented"
    ELSE IF "programmes" \in DOMAIN data /\ Len(data.programmes) > 1
         THEN "NotYetImplemented"
    ELSE "ok"

\* ReportAction.__init__: "ok", or the exception it raises
ReportInit(data) ==
    IF data.decision = "negative" THEN "NotYetImplemented"
    ELSE IF "programmes" \in DOMAIN data /\ Len(data.programmes) > 1
         THEN "NotYetImplemented"
    ELSE IF Len(data.institutions) > 1
            /\ data.agency_esg_activity_type # "joint programme"
         THEN "NotYetImplemented"
    ELSE "ok"

\* the test data['agency_esg_activity_type'] in ['programme', 'joint programme']
IsProgrammeType(data) ==
    data.agency_esg_activity_type \in {"programme", "joint programme"}

\* data['programmes'][0]: the exception the subscripts raise, or "none"
FirstProgrammeError(data) ==
    IF "programmes" \notin DOMAIN data THEN "KeyError"
    ELSE IF data.programmes = <<>> THEN "IndexError"
    ELSE "none"

institution_names(data) ==
    Join(" / ", [i \in 1..Len(data.institutions) |-> data.institutions[i].name_primary])

\* ReportAction.name: the exception it raises, or "none"
ReportNameError(data) ==
    IF IsProgrammeType(data) THEN FirstProgrammeError(data) ELSE "none"

\* ReportAction.name: its value, when it raises nothing
ReportName(data) ==
    IF IsProgrammeType(data)
    THEN data.name \o ": " \o data.programmes[1].name_primary \o ", " \o institution_names(data)
    ELSE data.name \o ": " \o institution_names(data)

serialise_institution(institution) ==
    [Type           |-> "ceterms:CredentialOrganization",
     Name           |-> institution.name_primary,
     Description    |-> institution.deqar_id \o ", " \o
                        (IF institution.is_other_provider
                         THEN "other provider" ELSE "higher education institution"),
     SubjectWebpage |-> PROVIDER_PAGE_TEMPLATE(institution.id)]

\* ReportAction.serialize: the first exception it raises, or "none"
ReportSerializeError(data) ==
    IF ReportNameError(data) # "none" THEN ReportNameError(data)
    ELSE IF data.agency_esg_activity_type \notin DOMAIN ACTIVITY_TYPE_CTID THEN "KeyError"
    ELSE IF ~IsProgrammeType(data) /\ data.institutions = <<>> THEN "IndexError"
    ELSE "none"

\* HasEndDate when the field is set unconditionally
HasEndDate_Mut(data) == TRUE

\* the test `if self.data['valid_to']`
HasEndDate(data) == Truthy(data.valid_to)

\* ReportRefObject with the institutions inserted at the front of OfferedBy
ReportRefObject_Mut(data, ref_id) ==
    IF IsProgrammeType(data)
    THEN [Id          |-> ref_id,
          Type        |-> "LearningProgram",
          Name        |-> data.programmes[1].name_primary,
          Description |-> data.programmes[1].programme_type \o ", "
                          \o data.programmes[1].qf_ehea_level,
          OfferedBy   |-> [i \in 1..Len(data.institutions) |->
                              serialise_institution(
                                  data.institutions[Len(data.institutions) + 1 - i])]]
    ELSE serialise_institution(data.institutions[1]) @@ [Id |-> ref_id]

\* the ref_object of ReportAction.serialize
ReportRefObject(data, ref_id) ==
    IF IsProgrammeType(data)
    THEN [Id          |-> ref_id,
          Type        |-> "LearningProgram",
          Name        |-> data.programmes[1].name_primary,
          Description |-> data.programmes[1].programme_type \o ", "
                          \o data.programmes[1].qf_ehea_level,
          OfferedBy   |-> [i \in 1..Len(data.institutions) |->
                              serialise_institution(data.institutions[i])]]
    ELSE serialise_institution(data.institutions[1]) @@ [Id |-> ref_id]

\* ReportAction.serialize when it raises nothing, u being the uuid4 value
ReportSerialize(data, u) ==
    LET ref_id == "_:" \o u
        action ==
            [Type             |-> "AccreditAction",
             Name             |-> ReportName(data),
             Description      |-> "Externally quality-assured in line with the ESG / Activity: "
                                  \o data.agency_esg_activity \o " / Decision: " \o data.decision
                                  \o " / Status: " \o data.status,
             CTID             |-> make_ctid(REPORT_URI_TEMPLATE(data.id)),
             Instrument       |-> <<ACTIVITY_TYPE_CTID[data.agency_esg_activity_type]>>,
             ActingAgent      |->
                <<[Type           |-> "ceterms:QACredentialOrganization",
                   Name           |-> data.agency_name \o " (" \o data.agency_acronym \o ")",
                   SubjectWebpage |-> AGENCY_PAGE_TEMPLATE(data.agency_id)],
                  [CTID |-> EQAR_CTID]>>,
             EvidenceOfAction |-> REPORT_PAGE_TEMPLATE(data.id),
             Object           |-> ref_id,
             StartDate        |-> data.valid_from]
    IN
    [CredentialingAction |->
        IF HasEndDate(data) THEN action @@ [EndDate |-> data.valid_to] ELSE action,
     PublishForOrganizationIdentifier |-> EQAR_CTID,
     DefaultLanguage  |-> "en-US",
     ReferenceObjects |-> <<ReportRefObject(data, ref_id)>>]

(***************************************************************************)
(* DeqarIterator, AgencyIterator, ReportIterator                           *)
(***************************************************************************)
AGENCY_ID_SEQUENCE ==
    <<1, 2, 3, 4, 5, 6, 7, 8, 9, 10, 11, 12, 13, 14, 15, 16, 17, 18, 19, 20, 27, 37>>
REPORT_ID_SEQUENCE ==
    <<2, 9913, 78053, 47851, 190, 211, 83359, 78828, 93411, 87996, 48198, 49779,
      9698, 97454, 49780, 9824, 101457, 101456, 101455, 101454, 101453, 101452,
      101451, 101450, 101449, 101448, 101447, 101446, 101445, 101444, 101443,
      101442, 101441>>

ID_SEQUENCE(kind) ==
    IF kind = "agency" THEN AGENCY_ID_SEQUENCE ELSE REPORT_ID_SEQUENCE

PATH_TEMPLATE(kind, object_id) ==
    IF kind = "agency"
    THEN "/webapi/v2/browse/agencies/" \o StrInt(object_id)
    ELSE "/webapi/v2/browse/reports/" \o StrInt(object_id)

\* The sequence argument of __init__: None (the default), or a list.
NoSequence == [given |-> FALSE, items |-> <<>>]
GivenSequences ==
    { [given |-> TRUE, items |-> q] :
        q \in UNION { [1..n -> {1, 2, 3}] : n \in 0..MaxSeq } }

\* bool(sequence): None and the empty list are falsy
SequenceTruthy(sequence) == sequence.given /\ sequence.items # <<>>

\* DeqarIterator.__init__: the ids iter(sequence or self.ID_SEQUENCE) goes through
NewIdIterator(kind, sequence) ==
    IF SequenceTruthy(sequence) THEN sequence.items ELSE ID_SEQUENCE(kind)

ItIdle == it = [kind |-> "idle"]

\* ids for which the source API's get raises; this is fixed per instance
FailingIdSets == SUBSET {1, 2, 3}

ItInit ==
    \E kind \in {"agency", "report"}, sequence \in {NoSequence} \cup GivenSequences,
       failing \in FailingIdSets :
        it = [kind     |-> kind,
              sequence |-> sequence,
              failing  |-> failing,
              ids      |-> NewIdIterator(kind, sequence),
              fetched  |-> <<>>,
              yielded  |-> <<>>,
              last     |-> "none"]

\* __next__ when the id iterator is exhausted: StopIteration
ItStop ==
    /\ it.kind # "idle"
    /\ it.ids = <<>>
    /\ it' = [it EXCEPT !.last = "StopIteration"]

\* __next__ when api.get returns the record
ItYield ==
    /\ it.kind # "idle"
    /\ it.ids # <<>>
    /\ Head(it.ids) \notin it.failing
    /\ it' = [it EXCEPT !.ids = Tail(@),
                        !.fetched = Append(@, PATH_TEMPLATE(it.kind, Head(it.ids))),
                        !.yielded = Append(@, Head(it.ids)),
                        !.last = "yielded"]

\* __next__ when api.get raises (NotFound, HTTPError): nothing is caught
ItFetchRaises ==
    /\ it.kind # "idle"
    /\ it.ids # <<>>
    /\ Head(it.ids) \in it.failing
    /\ it' = [it EXCEPT !.ids = Tail(@),
                        !.fetched = Append(@, PATH_TEMPLATE(it.kind, Head(it.ids))),
                        !.last = "raised"]

(***************************************************************************)
(* One translator instance, driven as the body of a __main__ loop drives   *)
(* it: construct, print the header, serialize; serialize is applied twice  *)
(* (the same record serialized again, by this run or by another).          *)
(***************************************************************************)
NoData  == [nodata |-> TRUE]
NoProps == [name_primary |-> "unread", acronym_primary |-> "unread"]

TrIdle ==
    /\ t_kind = "idle" /\ t_data = NoData /\ t_stage = "idle"
    /\ t_props = NoProps /\ t_label = "unset" /\ t_docs = <<>> /\ t_error = "none"

TrInit ==
    /\ \/ t_kind = "agency" /\ t_data \in AgencyRecords
       \/ t_kind = "report" /\ t_data \in ReportRecords
    /\ t_stage = "fetched"
    /\ t_props = NoProps /\ t_label = "unset" /\ t_docs = <<>> /\ t_error = "none"

\* AgencyAction(agency) / ReportAction(report)
TConstruct ==
    /\ t_stage = "fetched"
    /\ LET r == IF t_kind = "agency" THEN AgencyInit(t_data) ELSE ReportInit(t_data)
       IN  /\ t_stage' = IF r = "ok" THEN "constructed" ELSE "rejected"
           /\ t_error' = IF r = "ok" THEN "none" ELSE r
    /\ UNCHANGED <<t_kind, t_data, t_props, t_label, t_docs>>

\* reading the two properties of an AgencyAction
TProperties ==
    /\ t_kind = "agency" /\ t_stage \in {"constructed", "named"}
    /\ t_props = NoProps
    /\ t_props' = [name_primary    |-> name_primary(t_data),
                   acronym_primary |-> acronym_primary(t_data)]
    /\ UNCHANGED <<t_kind, t_data, t_stage, t_label, t_docs, t_error>>

\* the header print of the loop body: srlzr.acronym_primary / srlzr.name
THeader ==
    /\ t_stage = "constructed"
    /\ IF t_kind = "agency"
       THEN /\ t_label' = acronym_primary(t_data)
            /\ t_stage' = "named"
            /\ UNCHANGED t_error
       ELSE IF ReportNameError(t_data) # "none"
       THEN /\ t_stage' = "failed"
            /\ t_error' = ReportNameError(t_data)
            /\ UNCHANGED t_label
       ELSE /\ t_label' = ReportName(t_data)
            /\ t_stage' = "named"
            /\ UNCHANGED t_error
    /\ UNCHANGED <<t_kind, t_data, t_props, t_docs>>

\* TSerialize when serialize derives the CTID from a random UUID
TSerialize_Mut ==
    /\ t_stage = "named"
    /\ Len(t_docs) < 2
    /\ \E u \in UUID4 :
        IF t_kind = "agency"
        THEN /\ t_docs' = Append(t_docs, [AgencySerialize(t_data, u) EXCEPT
                                             !.CredentialingAction.CTID = "ce-" \o u])
             /\ UNCHANGED <<t_stage, t_error>>
        ELSE IF ReportSerializeError(t_data) # "none"
        THEN /\ t_stage' = "failed"
             /\ t_error' = ReportSerializeError(t_data)
             /\ UNCHANGED t_docs
        ELSE /\ t_docs' = Append(t_docs, [ReportSerialize(t_data, u) EXCEPT
                                             !.CredentialingAction.CTID = "ce-" \o u])
             /\ UNCHANGED <<t_stage, t_error>>
    /\ UNCHANGED <<t_kind, t_data, t_props, t_label>>

\* srlzr.serialize()
TSerialize ==
    /\ t_stage = "named"
    /\ Len(t_docs) < 2
    /\ \E u \in UUID4 :
        IF t_kind = "agency"
        THEN /\ t_docs' = Append(t_docs, AgencySerialize(t_data, u))
             /\ UNCHANGED <<t_stage, t_error>>
        ELSE IF ReportSerializeError(t_data) # "none"
        THEN /\ t_stage' = "failed"
             /\ t_error' = ReportSerializeError(t_data)
             /\ UNCHANGED t_docs
        ELSE /\ t_docs' = Append(t_docs, ReportSerialize(t_data, u))
             /\ UNCHANGED <<t_stage, t_error>>
    /\ UNCHANGED <<t_kind, t_data, t_props, t_label>>

(***************************************************************************)
(* __main__: the two loops.  One action is one pass through a loop body:   *)
(* the iterator's __next__, the translator's construction, the header      *)
(* print, serialize and the destination call.  `step` describes the pass   *)
(* just made; control going back to the `for` statement (ForNext) ends it, *)
(* the names agency / report / srlzr of that pass being dead from then on. *)
(***************************************************************************)
\* what a destination call (format or publish) can do: return, raise
\* Exception(response['Messages']), raise from raise_for_status, raise
\* from the POST itself
Responses == {"ok", "unsuccessful", "http error", "transport error"}

\* the ids a modelled run takes from the iterator of `kind`
RunIds(kind) ==
    LET ids == NewIdIterator(kind, NoSequence)
    IN  SubSeq(ids, 1, IF Len(ids) < MaxRun THEN Len(ids) ELSE MaxRun)

\* the branch `if args.dry_run`
Operation(dry) == IF dry THEN "format" ELSE "publish"

\* Dispatch when the exception of the destination call is swallowed
Dispatch_Mut(kind, id, data, doc, resp) ==
    /\ calls' = Append(calls, [op |-> Operation(dry_run), kind |-> kind, id |-> id,
                               response |-> resp])
    /\ step' = [kind |-> kind, id |-> id, data |-> data, doc |-> doc,
                outcome |-> IF resp = "ok" THEN "printed" ELSE "call raised"]
    /\ UNCHANGED phase

\* the state after the destination call of a loop body returned or raised
Dispatch(kind, id, data, doc, resp) ==
    /\ calls' = Append(calls, [op |-> Operation(dry_run), kind |-> kind, id |-> id,
                               response |-> resp])
    /\ step' = [kind |-> kind, id |-> id, data |-> data, doc |-> doc,
                outcome |-> IF resp = "ok" THEN "printed" ELSE "call raised"]
    /\ phase' = IF resp = "ok" THEN phase ELSE "aborted"

\* the state after an exception other than NotYetImplemented left the body
Crash(kind, id, data, err) ==
    /\ step' = [kind |-> kind, id |-> id, data |-> data, doc |-> NoData, outcome |-> err]
    /\ phase' = "aborted"
    /\ UNCHANGED calls

\* the state after `continue`
Skip(kind, id, data) ==
    /\ step' = [kind |-> kind, id |-> id, data |-> data, doc |-> NoData,
                outcome |-> "skipped"]
    /\ UNCHANGED <<phase, calls>>

NoStep == [kind |-> "none"]

MainInit ==
    /\ dry_run \in BOOLEAN
    /\ phase = "agencies"
    /\ id_iterator = RunIds("agency")
    /\ n_fetch = 0
    /\ step = NoStep
    /\ calls = <<>>

\* control returns to the `for` statement after a pass that did not raise
ForNext ==
    /\ phase \in {"agencies", "reports"}
    /\ step # NoStep
    /\ step' = NoStep
    /\ UNCHANGED <<dry_run, phase, id_iterator, n_fetch, calls>>

\* AgencyIterator.__next__ raises from api.get
AgencyFetchRaises ==
    /\ phase = "agencies" /\ id_iterator # <<>> /\ step = NoStep
    /\ id_iterator' = Tail(id_iterator)
    /\ n_fetch' = n_fetch + 1
    /\ Crash("agency", Head(id_iterator), NoData, "fetch raised")
    /\ UNCHANGED dry_run

\* one pass through the body of `for agency in AgencyIterator(api)`
AgencyBody ==
    /\ phase = "agencies" /\ id_iterator # <<>> /\ step = NoStep
    /\ id_iterator' = Tail(id_iterator)
    /\ n_fetch' = n_fetch + 1
    /\ \E agency \in AgencyRecordsFor(Head(id_iterator)) :
         IF AgencyInit(agency) # "ok"
         THEN Skip("agency", agency.deqar_id, agency)
         ELSE \E u \in UUID4, resp \in Responses :
                Dispatch("agency", agency.deqar_id, agency, AgencySerialize(agency, u), resp)
    /\ UNCHANGED dry_run

\* StopIteration ends the first loop; the second one starts
AgenciesExhausted ==
    /\ phase = "agencies" /\ id_iterator = <<>> /\ step = NoStep
    /\ phase' = "reports"
    /\ id_iterator' = RunIds("report")
    /\ UNCHANGED <<dry_run, n_fetch, step, calls>>

\* ReportIterator.__next__ raises from api.get
ReportFetchRaises ==
    /\ phase = "reports" /\ id_iterator # <<>> /\ step = NoStep
    /\ id_iterator' = Tail(id_iterator)
    /\ n_fetch' = n_fetch + 1
    /\ Crash("report", Head(id_iterator), NoData, "fetch raised")
    /\ UNCHANGED dry_run

\* one pass through the body of `for report in ReportIterator(api)`
ReportBody ==
    /\ phase = "reports" /\ id_iterator # <<>> /\ step = NoStep
    /\ id_iterator' = Tail(id_iterator)
    /\ n_fetch' = n_fetch + 1
    /\ \E report \in ReportRecordsFor(Head(id_iterator)) :
         IF ReportInit(report) # "ok"
         THEN Skip("report", report.id, report)
         ELSE IF ReportNameError(report) # "none"
         THEN Crash("report", report.id, report, ReportNameError(report))
         ELSE IF ReportSerializeError(report) # "none"
         THEN Crash("report", report.id, report, ReportSerializeError(report))
         ELSE \E u \in UUID4, resp \in Responses :
                Dispatch("report", report.id, report, ReportSerialize(report, u), resp)
    /\ UNCHANGED dry_run

\* StopIteration ends the second loop and the run
ReportsExhausted ==
    /\ phase = "reports" /\ id_iterator = <<>> /\ step = NoStep
    /\ phase' = "done"
    /\ UNCHANGED <<dry_run, id_iterator, n_fetch, step, calls>>

(***************************************************************************)
(* Specifications.                                                         *)
(***************************************************************************)
MainIdle ==
    /\ dry_run = FALSE /\ phase = "idle" /\ id_iterator = <<>> /\ n_fetch = 0
    /\ step = [kind |-> "idle"] /\ calls = <<>>

\* one translator instance
InitTranslate == MainIdle /\ ItIdle /\ TrInit
NextTranslate ==
    \/ TConstruct /\ UNCHANGED <<main_vars, it>>
    \/ TProperties /\ UNCHANGED <<main_vars, it>>
    \/ THeader /\ UNCHANGED <<main_vars, it>>
    \/ TSerialize /\ UNCHANGED <<main_vars, it>>
SpecTranslate == InitTranslate /\ [][NextTranslate]_vars

\* one iterator instance
InitIter == MainIdle /\ TrIdle /\ ItInit
NextIter ==
    \/ ItStop /\ UNCHANGED <<main_vars, tr_vars>>
    \/ ItYield /\ UNCHANGED <<main_vars, tr_vars>>
    \/ ItFetchRaises /\ UNCHANGED <<main_vars, tr_vars>>
SpecIter == InitIter /\ [][NextIter]_vars

\* a run of __main__
Init == MainInit /\ ItIdle /\ TrIdle
Next ==
    \/ ForNext /\ UNCHANGED <<it, tr_vars>>
    \/ AgencyFetchRaises /\ UNCHANGED <<it, tr_vars>>
    \/ AgencyBody /\ UNCHANGED <<it, tr_vars>>
    \/ AgenciesExhausted /\ UNCHANGED <<it, tr_vars>>
    \/ ReportFetchRaises /\ UNCHANGED <<it, tr_vars>>
    \/ ReportBody /\ UNCHANGED <<it, tr_vars>>
    \/ ReportsExhausted /\ UNCHANGED <<it, tr_vars>>
Spec == Init /\ [][Next]_vars

(***************************************************************************)
(* Properties.                                                             *)
(***************************************************************************)
\* the passes of the run that handed (kind, id) to the destination
CallsFor(kind, id) ==
    { i \in 1..Len(calls) : calls[i].kind = kind /\ calls[i].id = id }

\* the pass just made fetched a record
StepHasRecord == step # NoStep /\ step.data # NoData

\* the not-applicable condition, read off the record itself
RecordNotApplicable(kind, data) ==
    IF kind = "agency"
    THEN data.is_registered # JTrue
    ELSE \/ data.decision = "negative"
         \/ "programmes" \in DOMAIN data /\ Len(data.programmes) > 1
         \/ /\ Len(data.institutions) > 1
            /\ data.agency_esg_activity_type # "joint programme"

\* C1, state part: a pass whose record is not applicable made no destination
\* call for it, serialized nothing and left the loop running.
C1_SkippedState ==
    (StepHasRecord /\ RecordNotApplicable(step.kind, step.data)) =>
        /\ step.outcome = "skipped"
        /\ step.doc = NoData
        /\ CallsFor(step.kind, step.id) = {}
        /\ phase \in {"agencies", "reports"}

\* C1: for every record whose translator construction raises the
\* not-applicable condition neither format nor publish is called, and the
\* run is not aborted: the only step after such a pass is the return to the
\* `for` statement, from which the next record of the sequence is fetched.
C1_NotApplicableIsSkipped ==
    /\ []C1_SkippedState
    /\ [][ (StepHasRecord /\ RecordNotApplicable(step.kind, step.data)) =>
             (step' = NoStep /\ UNCHANGED <<phase, id_iterator, n_fetch, calls>>) ]_vars
    /\ [][ (step = NoStep /\ id_iterator # <<>> /\ phase \in {"agencies", "reports"}) =>
             (n_fetch' = n_fetch + 1 /\ step'.id = Head(id_iterator)
              /\ id_iterator' = Tail(id_iterator)) ]_vars

\* C1 witness: the first agency was fetched and got no destination call,
\* and the second agency was fetched and dispatched after it.
C1_Witness ==
    /\ phase = "agencies" /\ n_fetch = 2 /\ Len(calls) = 1
    /\ calls[1].id = AGENCY_ID_SEQUENCE[2]
    /\ calls[1].response = "ok"

\* C2: a destination call that reports an unsuccessful result or a
\* transport-level error ends the run: it is the last destination call, it
\* was made once, the pass that made it is the last pass (nothing was
\* fetched after it) and the run is aborted.
C2_RemoteFailureEndsRun ==
    \A i \in 1..Len(calls) :
        calls[i].response # "ok" =>
            /\ i = Len(calls)
            /\ phase = "aborted"
            /\ step # NoStep
            /\ step.kind = calls[i].kind /\ step.id = calls[i].id
            /\ step.outcome = "call raised"
            /\ Cardinality(CallsFor(calls[i].kind, calls[i].id)) = 1

\* C2 witness: the call for the first agency failed with ids still unfetched.
C2_Witness ==
    /\ Len(calls) = 1 /\ calls[1].response = "transport error"
    /\ calls[1].kind = "agency" /\ id_iterator # <<>> /\ n_fetch = 1

\* a report record as the data model has it: a programmes list, at least one
\* institution, an activity type of the four known ones
ReportWellFormed(data) ==
    /\ "programmes" \in DOMAIN data
    /\ data.institutions # <<>>
    /\ data.agency_esg_activity_type \in
          {"joint programme", "institutional", "institutional/programme", "programme"}

\* C3 (as claimed): every record that passes the applicability check gets
\* exactly one destination call with its serialized document, format in a
\* dry run and publish otherwise, and no call of the other operation is
\* made in the whole run.  Report records are taken as the data model has
\* them only, so that a violation does not rest on a malformed record.
C3_OneCallPerApplicableRecord ==
    /\ (/\ StepHasRecord /\ ~RecordNotApplicable(step.kind, step.data)
        /\ step.kind = "report" => ReportWellFormed(step.data)) =>
          /\ Cardinality(CallsFor(step.kind, step.id)) = 1
          /\ Last(calls).kind = step.kind /\ Last(calls).id = step.id
          /\ step.doc \in { IF step.kind = "agency"
                            THEN AgencySerialize(step.data, u)
                            ELSE ReportSerialize(step.data, u) : u \in UUID4 }
    /\ \A i \in 1..Len(calls) :
          calls[i].op = (IF dry_run THEN "format" ELSE "publish")

\* C4: constructing the report translator raises the not-applicable
\* condition whenever the decision is "negative", there is more than one
\* programme, or there is more than one institution and the activity type
\* is not "joint programme"; nothing is named or serialized then.
C4_ReportRejected ==
    (/\ t_kind = "report" /\ t_stage # "fetched"
     /\ \/ t_data.decision = "negative"
        \/ "programmes" \in DOMAIN t_data /\ Len(t_data.programmes) > 1
        \/ /\ Len(t_data.institutions) > 1
           /\ t_data.agency_esg_activity_type # "joint programme") =>
        /\ t_stage = "rejected"
        /\ t_error = "NotYetImplemented"
        /\ t_label = "unset" /\ t_docs = <<>>

\* C4 witness: rejected only for its two institutions (positive decision,
\* one programme, activity type "programme").
C4_Witness ==
    /\ t_kind = "report" /\ t_stage = "rejected"
    /\ t_data.decision = "positive"
    /\ "programmes" \in DOMAIN t_data /\ Len(t_data.programmes) = 1
    /\ Len(t_data.institutions) = 2
    /\ t_data.agency_esg_activity_type = "programme"

\* C5: a serialized report has no EndDate field when valid_to is absent
\* (None), and an EndDate equal to valid_to when it is present.
C5_EndDate ==
    t_kind = "report" =>
        \A i \in 1..Len(t_docs) :
            IF t_data.valid_to = None
            THEN "EndDate" \notin DOMAIN t_docs[i].CredentialingAction
            ELSE /\ "EndDate" \in DOMAIN t_docs[i].CredentialingAction
                 /\ t_docs[i].CredentialingAction.EndDate = t_data.valid_to

\* C5 witness: a report with an open end date was serialized.
C5_Witness ==
    /\ t_kind = "report" /\ Len(t_docs) = 2 /\ t_data.valid_to = None
    /\ t_docs[1].CredentialingAction.StartDate = t_data.valid_from

\* C6: the single inline object of a serialized report is, for activity
\* type "programme" or "joint programme", a learning program whose OfferedBy
\* has one organization per source institution in source order, and for
\* every other activity type one organization description built from the
\* sole institution.
C6_InlineObject ==
    t_kind = "report" =>
        \A i \in 1..Len(t_docs) :
            LET ro   == t_docs[i].ReferenceObjects
                inst == t_data.institutions
                OrgOf(org, n) ==
                    /\ org.Type = "ceterms:CredentialOrganization"
                    /\ org.Name = inst[n].name_primary
                    /\ org.SubjectWebpage =
                         "https://data.deqar.eu/institution/" \o ToString(inst[n].id)
            IN  /\ Len(ro) = 1
                /\ IF t_data.agency_esg_activity_type \in {"programme", "joint programme"}
                   THEN /\ ro[1].Type = "LearningProgram"
                        /\ Len(ro[1].OfferedBy) = Len(inst)
                        /\ \A n \in 1..Len(inst) : OrgOf(ro[1].OfferedBy[n], n)
                   ELSE /\ Len(inst) = 1
                        /\ "OfferedBy" \notin DOMAIN ro[1]
                        /\ OrgOf(ro[1], 1)

\* C6 witness: a joint programme of two different institutions, the second
\* of the register first, was serialized.
C6_Witness ==
    /\ t_kind = "report" /\ Len(t_docs) = 1
    /\ t_data.agency_esg_activity_type = "joint programme"
    /\ t_data.institutions = <<Institution(2), Institution(1)>>

\* the versions a primary name / acronym may come from: those flagged, in a
\* name record whose name_valid_to is absent
OpenPrimary(names, flag) ==
    { p \in UNION { {<<i, j>> : j \in 1..Len(names[i].name_versions)} : i \in 1..Len(names) } :
        /\ names[p[1]].name_valid_to = None
        /\ names[p[1]].name_versions[p[2]][flag] }

\* C7: the primary name and the primary acronym each come from a flagged
\* version of a name record without "valid to", never from a record with a
\* "valid to"; each is None exactly when there is no such version for it,
\* whatever the other one is.
C7_PrimaryNames ==
    (t_kind = "agency" /\ t_props # NoProps) =>
        LET names == t_data.names
            n     == OpenPrimary(names, "name_is_primary")
            a     == OpenPrimary(names, "acronym_is_primary")
        IN  /\ IF n = {} THEN t_props.name_primary = None
               ELSE \E p \in n :
                      t_props.name_primary = names[p[1]].name_versions[p[2]].name
            /\ IF a = {} THEN t_props.acronym_primary = None
               ELSE \E p \in a :
                      t_props.acronym_primary = names[p[1]].name_versions[p[2]].acronym

\* C7 witness: the first name record has a "valid to" and both flags set,
\* the second has none and flags only its name: the name is the second
\* record's and the acronym has no value.
C7_Witness ==
    /\ t_kind = "agency" /\ t_props # NoProps
    /\ Len(t_data.names) = 2
    /\ t_data.names[1].name_valid_to # None
    /\ t_data.names[1].name_versions[1].name_is_primary
    /\ t_data.names[1].name_versions[1].acronym_is_primary
    /\ t_props.name_primary = "Name2.1"
    /\ t_props.acronym_primary = None

\* C8 (as claimed): the iterator fetches exactly the identifiers of the
\* sequence it was given (the empty one included), or of the default list
\* when none was given, in order, yields the records fetched and then ends.
C8_FetchesGivenSequence ==
    it.kind # "idle" =>
        LET expected == IF it.sequence.given THEN it.sequence.items
                        ELSE ID_SEQUENCE(it.kind)
        IN  /\ Len(it.fetched) <= Len(expected)
            /\ \A i \in 1..Len(it.fetched) :
                  it.fetched[i] = PATH_TEMPLATE(it.kind, expected[i])
            /\ it.last = "StopIteration" => Len(it.fetched) = Len(expected)
            /\ it.yielded = SelectSeq(SubSeq(expected, 1, Len(it.fetched)),
                                      LAMBDA x : x \notin it.failing)

\* C9: every serialization of a record carries the same CTID, which is
\* "ce-" followed by the version-5 UUID of the kind's URI for the record's
\* id, whatever the other fields and the random object reference are.
C9_StableCtid ==
    \A i \in 1..Len(t_docs) :
        LET ctid == t_docs[i].CredentialingAction.CTID
            uri  == IF t_kind = "agency"
                    THEN "https://data.test.deqar.eu/agency/"
                         \o ToString(t_data.deqar_id) \o "/registration"
                    ELSE "https://data.test.deqar.eu/report/" \o ToString(t_data.id)
        IN  /\ SubSeq(ctid, 1, 3) = "ce-"
            /\ ctid = "ce-" \o uuid5(NAMESPACE_URL, uri)
            /\ ctid = t_docs[1].CredentialingAction.CTID

\* C9 witness: one record serialized twice with different object references.
C9_Witness ==
    /\ Len(t_docs) = 2
    /\ t_docs[1].CredentialingAction.Object # t_docs[2].CredentialingAction.Object

\* C10 (as claimed): a report that passes the three applicability checks,
\* has at least one institution and an activity type of the four known
\* ones is named and serialized without a failure, and its one reference
\* object carries the id the action's Object names.  Only records that carry
\* a programmes list are taken, the empty list being the claim's case.
C10_ApplicableReportSerializes ==
    (/\ t_kind = "report"
     /\ ~RecordNotApplicable("report", t_data)
     /\ ReportWellFormed(t_data)) =>
        /\ t_stage \notin {"failed", "rejected"} /\ t_error = "none"
        /\ \A i \in 1..Len(t_docs) :
              /\ Len(t_docs[i].ReferenceObjects) = 1
              /\ t_docs[i].ReferenceObjects[1].Id = t_docs[i].CredentialingAction.Object

====
